---- MODULE Spec2Model ----
(***************************************************************************)
(* A model of snscrape/cli.py: the datetime parser, the discovery of the   *)
(* scraper classes and their registration as subcommands, main's item loop *)
(* with its two stopping conditions, and the crash diagnostics wrapped     *)
(* around the loop.                                                        *)
(*                                                                         *)
(* Optional values (Python's None) are sequences: <<>> is None and <<x>>   *)
(* is the value x.                                                         *)
(***************************************************************************)
EXTENDS Integers, Sequences, FiniteSets, TLC

None == <<>>
Some(x) == <<x>>

(***************************************************************************)
(* Bounds of the model.                                                    *)
(***************************************************************************)
\* The longest argument string of --since, in lexical tokens.
MaxTokens == 3
\* The number of scraper classes below the root in a class hierarchy.
MaxClasses == 3
\* The most items a scraper yields in one run.
MaxItems == 3
\* Item dates are the instants 1..MaxDate (seconds since the epoch).
MaxDate == 3
\* The largest positive --max-results value tried.
MaxCap == 2
\* The most frames of a traceback below main's own frame.
MaxDeep == 2

(***************************************************************************)
(* The --since argument.  A string is modelled by its lexical tokens, the  *)
(* units strptime's directives and int() consume: a date "Y-m-d", a time   *)
(* "H:M:S", a UTC offset, an integer literal, or anything else.  val is    *)
(* the token's value (the day number since the epoch, the second of the    *)
(* day, the offset in minutes, the integer); ok tells whether the value is *)
(* in range: a date such as 2023-02-30 is "invalid", an integer is "ok",   *)
(* "year" (past the years 1..9999 a datetime can hold) or "time_t" (past   *)
(* the platform's time_t).                                                 *)
(***************************************************************************)
SecondsPerDay == 86400

Tok(kind, val, ok) == [kind |-> kind, val |-> val, ok |-> ok]

Tokens ==
    {Tok("date", d, "ok") : d \in {0, 1}} \cup {Tok("date", 0, "invalid")}
    \cup {Tok("time", s, "ok") : s \in {0, 3723}} \cup {Tok("time", 0, "invalid")}
    \cup {Tok("offset", m, "ok") : m \in {0, 60, -90}}
    \cup {Tok("int", n, "ok") : n \in {-1, 0, 2}}
    \cup {Tok("int", 1, "year"), Tok("int", 1, "time_t")}
    \cup {Tok("junk", 0, "ok")}

RECURSIVE SeqsUpTo(_, _)
SeqsUpTo(S, n) ==
    IF n = 0 THEN {<<>>}
    ELSE LET shorter == SeqsUpTo(S, n - 1)
         IN  shorter \cup {Append(s, x) : s \in {t \in shorter : Len(t) = n - 1}, x \in S}

\* Every argument string of up to MaxTokens tokens, the empty string included.
ArgStrings == SeqsUpTo(Tokens, MaxTokens)

\* The four layouts of line 39, in their order, as the directives of each.
Formats ==
    << <<"date", "time", "offset">>,
       <<"date", "time">>,
       <<"date", "offset">>,
       <<"date">> >>

\* A datetime: its wall-clock reading in seconds and its tzinfo (None for a
\* naive one, else the UTC offset in seconds).
Datetime(wall, tzinfo) == [wall |-> wall, tzinfo |-> tzinfo]

\* The absolute instant of a timezone-aware datetime.
Instant(d) == d.wall - d.tzinfo[1]

Raised(type, arg) == [type |-> type, arg |-> arg]

\* datetime.datetime.strptime(arg, format): the datetime, or ValueError.
strptime(arg, format) ==
    IF /\ Len(arg) = Len(format)
       /\ \A j \in 1..Len(arg) : arg[j].kind = format[j] /\ arg[j].ok = "ok"
    THEN LET field(kind) ==
                 {arg[j].val : j \in {n \in 1..Len(arg) : arg[n].kind = kind}}
             day == CHOOSE v \in field("date") : TRUE
             secs == IF field("time") = {} THEN 0 ELSE CHOOSE v \in field("time") : TRUE
             tz == IF field("offset") = {} THEN None
                   ELSE Some(60 * (CHOOSE v \in field("offset") : TRUE))
         IN  [raised |-> None, value |-> Some(Datetime(day * SecondsPerDay + secs, tz))]
    ELSE [raised |-> Some(Raised("ValueError", arg)), value |-> None]

\* int(arg): the integer token of a string that is one integer literal.
int(arg) ==
    IF Len(arg) = 1 /\ arg[1].kind = "int"
    THEN [raised |-> None, value |-> Some(arg[1])]
    ELSE [raised |-> Some(Raised("ValueError", arg)), value |-> None]

\* datetime.datetime.fromtimestamp(n, datetime.timezone.utc)
fromtimestamp(n) ==
    CASE n.ok = "time_t" -> [raised |-> Some(Raised("OverflowError", <<n>>)), value |-> None]
      [] n.ok = "year"   -> [raised |-> Some(Raised("ValueError", <<n>>)), value |-> None]
      [] OTHER           -> [raised |-> None, value |-> Some(Datetime(n.val, Some(0)))]

\* d.replace(tzinfo = datetime.timezone.utc) of a naive datetime (line 46).
ReplaceTzinfo(d) == Datetime(d.wall, Some(0))

\* The except clause of line 51: the failures of the timestamp attempt that
\* are swallowed, so that line 55 turns them into ArgumentTypeError.
CaughtAtTimestamp(type) == type = "ValueError"

\* Lines 39-47: the layouts from the j-th on.
RECURSIVE TryFormats(_, _)
TryFormats(arg, j) ==
    IF j > Len(Formats) THEN None
    ELSE LET r == strptime(arg, Formats[j])
         IN  IF r.raised # None THEN TryFormats(arg, j + 1)
             ELSE IF r.value[1].tzinfo = None THEN Some(ReplaceTzinfo(r.value[1]))
             ELSE r.value

parse_datetime_arg(arg) ==
    LET d == TryFormats(arg, 1)
    IN  IF d # None THEN [raised |-> None, value |-> d]
        ELSE LET n == int(arg)
                 t == IF n.raised # None THEN n ELSE fromtimestamp(n.value[1])
             IN  IF t.raised = None THEN t
                 ELSE IF CaughtAtTimestamp(t.raised[1].type)
                 THEN [raised |-> Some(Raised("ArgumentTypeError", arg)), value |-> None]
                 ELSE [raised |-> t.raised, value |-> None]

(***************************************************************************)
(* The state.                                                              *)
(***************************************************************************)
VARIABLES
    bases,          \* the class hierarchy: bases[c] is the set of classes that
                    \* class c derives from directly; 0 is snscrape.base.Scraper
    clsName,        \* clsName[c]: the name attribute of class c, or None
    conflictCheck,  \* whether the argparse of this Python refuses a subparser
                    \* name that is already taken (it does from 3.11 on)
    argv,           \* the command line: scraper, since, maxResults
    pc,             \* where the program is
    classes,        \* parse_args: the list the discovery loop walks and extends
    k,              \* parse_args: how many entries of classes the loop has visited
    subparsers,     \* parse_args: the class each subcommand name selects
    addParserCalls, \* parse_args: the add_parser calls that returned, in order
    args,           \* main: the parsed arguments, None until parse_args returns
    parseResult,    \* what the conversion of the --since string gave
    scraper,        \* main: the constructed scraper (its class), or None
    pulled,         \* the dates of the items pulled from scraper.get_items()
    i,              \* main: the loop counter
    rendered,       \* the dates of the items printed, in order
    log,            \* the termination reports logged
    trace,          \* inspect.trace() of the failure: the owner of each frame
    original,       \* the failure raised inside the with block, or None
    capture,        \* what became of the diagnostic capture
    artifacts,      \* the diagnostic files created
    observed,       \* the failure that escaped to main's caller, with the
                    \* function it was raised in, or None
    raisedIn

vars == <<bases, clsName, conflictCheck, argv, pc, classes, k, subparsers,
          addParserCalls, args, parseResult, scraper, pulled, i, rendered, log,
          trace, original, capture, artifacts, observed, raisedIn>>

envVars == <<bases, clsName, conflictCheck, argv>>
registryVars == <<classes, k, subparsers, addParserCalls>>
loopVars == <<pulled, i, rendered, log>>
crashVars == <<trace, original, capture, artifacts>>

Root == 0
Names == {"a", "b"}

(***************************************************************************)
(* Class hierarchies.  A class is created after its bases, so bases[c] is  *)
(* a non-empty set of classes numbered below c.                            *)
(***************************************************************************)
Hierarchies(n) ==
    {b \in [1..n -> SUBSET (0..(n - 1))] :
        \A c \in 1..n : b[c] # {} /\ \A p \in b[c] : p < c}

NameChoices(n) == [1..n -> {None} \cup {Some(x) : x \in Names}]

\* The hierarchy main runs with: a(Scraper), an unnamed base class, and b
\* derived from the unnamed one.
DefaultBases == << {0}, {0}, {2} >>
DefaultNames == << Some("a"), None, Some("b") >>

RECURSIVE SortedSeq(_)
SortedSeq(S) ==
    IF S = {} THEN <<>>
    ELSE LET m == CHOOSE x \in S : \A y \in S : x <= y
         IN  <<m>> \o SortedSeq(S \ {m})

\* cls.__subclasses__(): the direct subclasses, in the order of their creation.
Subclasses(cls) == SortedSeq({c \in 1..Len(bases) : cls \in bases[c]})

\* cls.name, None for the root.
NameOf(cls) == IF cls = Root THEN None ELSE clsName[cls]

(***************************************************************************)
(* The command line.                                                       *)
(***************************************************************************)
SinceArgs ==
    {None, Some(<<Tok("int", 2, "ok")>>), Some(<<Tok("junk", 0, "ok")>>),
     Some(<<Tok("int", 1, "time_t")>>)}
MaxResultsArgs == {None} \cup {Some(n) : n \in (-1)..MaxCap}
ScraperArgs == {None} \cup {Some(x) : x \in Names}
Dates == 1..MaxDate

EmptyRun ==
    /\ classes = <<>> /\ k = 0
    /\ subparsers = [x \in Names |-> None]
    /\ addParserCalls = <<>>
    /\ args = None /\ parseResult = None /\ scraper = None
    /\ pulled = <<>> /\ i = 0 /\ rendered = <<>> /\ log = <<>>
    /\ trace = <<>> /\ original = None /\ capture = "none" /\ artifacts = <<>>
    /\ observed = None /\ raisedIn = "nowhere"

\* A run of main with the default hierarchy.
Init ==
    /\ bases = DefaultBases /\ clsName = DefaultNames
    /\ conflictCheck = TRUE
    /\ argv \in [scraper : ScraperArgs, since : SinceArgs, maxResults : MaxResultsArgs]
    /\ pc = "parse_args"
    /\ EmptyRun

\* parse_args alone, over every class hierarchy, with and without the
\* conflict check of argparse.
InitRegistry ==
    /\ \E n \in 1..MaxClasses :
          /\ bases \in Hierarchies(n)
          /\ clsName \in NameChoices(n)
    /\ conflictCheck \in BOOLEAN
    /\ argv = [scraper |-> None, since |-> None, maxResults |-> None]
    /\ pc = "parse_args"
    /\ EmptyRun

\* parse_datetime_arg alone, over every argument string.
InitParse ==
    /\ bases = DefaultBases /\ clsName = DefaultNames
    /\ conflictCheck = TRUE
    /\ \E a \in ArgStrings :
          argv = [scraper |-> None, since |-> Some(a), maxResults |-> None]
    /\ pc = "parse_datetime_arg"
    /\ EmptyRun

\* An exception leaves the program: main's caller observes it.
Escape(e, where) ==
    /\ pc' = "failed"
    /\ observed' = Some(e)
    /\ raisedIn' = where

(***************************************************************************)
(* parse_args, lines 58-82.                                                *)
(***************************************************************************)
\* Lines 59-68: the global options, and the list the loop starts from.
BuildParser ==
    /\ pc = "parse_args"
    /\ classes' = Subclasses(Root)
    /\ k' = 0
    /\ pc' = "discover"
    /\ UNCHANGED <<envVars, subparsers, addParserCalls, args, parseResult, scraper,
                   loopVars, crashVars, observed, raisedIn>>

\* subparsers.add_parser(name): whether argparse raises ArgumentError.
AddParserConflicts(name) == conflictCheck /\ subparsers[name] # None

\* Lines 69-74, one iteration: the class at position k + 1 of the list.
DiscoverVisit ==
    /\ pc = "discover"
    /\ k < Len(classes)
    /\ LET cls == classes[k + 1]
           name == NameOf(cls)
       IN  IF name # None /\ AddParserConflicts(name[1])
           THEN /\ Escape(Raised("ArgumentError", <<>>), "parse_args")
                /\ UNCHANGED <<registryVars>>
           ELSE /\ IF name # None
                   THEN /\ subparsers' = [subparsers EXCEPT ![name[1]] = Some(cls)]
                        /\ addParserCalls' = Append(addParserCalls, cls)
                   ELSE UNCHANGED <<subparsers, addParserCalls>>
                /\ classes' = classes \o Subclasses(cls)
                /\ k' = k + 1
                /\ UNCHANGED <<pc, observed, raisedIn>>
    /\ UNCHANGED <<envVars, args, parseResult, scraper, loopVars, crashVars>>

\* The for loop of line 69 ends: the list is used up.
DiscoverDone ==
    /\ pc = "discover"
    /\ k = Len(classes)
    /\ pc' = "parse"
    /\ UNCHANGED <<envVars, registryVars, args, parseResult, scraper, loopVars,
                   crashVars, observed, raisedIn>>

\* Line 79: no scraper was given on the command line.
\* (NoScraperSelectedNever: the check left out.)
NoScraperSelectedNever(selected) == FALSE
NoScraperSelected(selected) == selected = None

\* Lines 76-82.  argparse converts --since with parse_datetime_arg while it
\* parses, turns an ArgumentTypeError into its usage error (SystemExit) and
\* lets any other failure through; a subcommand that is no registered name
\* is a usage error too.
ParseArgs ==
    /\ pc = "parse"
    /\ LET conv == IF argv.since = None THEN [raised |-> None, value |-> None]
                   ELSE parse_datetime_arg(argv.since[1])
       IN  /\ parseResult' = Some(conv)
           /\ IF conv.raised # None
              THEN /\ Escape(IF conv.raised[1].type = "ArgumentTypeError"
                             THEN Raised("SystemExit", conv.raised[1].arg)
                             ELSE conv.raised[1], "parse_args")
                   /\ UNCHANGED args
              ELSE IF argv.scraper # None /\ subparsers[argv.scraper[1]] = None
              THEN /\ Escape(Raised("SystemExit", <<>>), "parse_args")
                   /\ UNCHANGED args
              ELSE IF NoScraperSelected(argv.scraper)
              THEN /\ Escape(Raised("RuntimeError", <<>>), "parse_args")
                   /\ UNCHANGED args
              ELSE /\ args' = Some([scraper |-> argv.scraper,
                                    cls |-> IF argv.scraper = None THEN None
                                            ELSE subparsers[argv.scraper[1]],
                                    since |-> conv.value,
                                    maxResults |-> argv.maxResults])
                   /\ pc' = "setup_logging"
                   /\ UNCHANGED <<observed, raisedIn>>
    /\ UNCHANGED <<envVars, registryVars, scraper, loopVars, crashVars>>

\* parse_datetime_arg called on its own (the specification of the parser).
ParseDatetimeCall ==
    /\ pc = "parse_datetime_arg"
    /\ LET r == parse_datetime_arg(argv.since[1])
       IN  /\ parseResult' = Some(r)
           /\ IF r.raised # None
              THEN Escape(r.raised[1], "parse_datetime_arg")
              ELSE pc' = "returned" /\ UNCHANGED <<observed, raisedIn>>
    /\ UNCHANGED <<envVars, registryVars, args, scraper, loopVars, crashVars>>

(***************************************************************************)
(* main, lines 104-123.                                                    *)
(***************************************************************************)
\* Line 106.
SetupLogging ==
    /\ pc = "setup_logging"
    /\ pc' = "from_args"
    /\ UNCHANGED <<envVars, registryVars, args, parseResult, scraper, loopVars,
                   crashVars, observed, raisedIn>>

\* Line 107: args.cls exists only when a subcommand was parsed.
FromArgs ==
    /\ pc = "from_args"
    /\ IF args[1].cls = None
       THEN /\ Escape(Raised("AttributeError", <<>>), "main")
            /\ UNCHANGED scraper
       ELSE /\ scraper' = args[1].cls
            /\ pc' = "loop"
            /\ UNCHANGED <<observed, raisedIn>>
    /\ UNCHANGED <<envVars, registryVars, args, parseResult, loopVars, crashVars>>

\* enumerate(..., start = 1): the counter of the n-th item pulled.
\* (EnumerateFromZero: enumerate without start = 1.)
EnumerateFromZero(n) == n - 1
EnumerateIndex(n) == n

\* Line 112: args.since is not None and item.date < args.since
\* (CutoffReachedInclusive: <= in place of <.)
CutoffReachedInclusive(date, since) == since # None /\ date <= Instant(since[1])
CutoffReached(date, since) == since # None /\ date < Instant(since[1])

\* Line 119: args.maxResults and i >= args.maxResults (0 and None are falsy)
\* (CapReachedStrict: > in place of >=; CapReachedWhenSet: a test for None
\* in place of the truth value.)
CapReachedStrict(count, maxResults) ==
    maxResults # None /\ maxResults[1] # 0 /\ count > maxResults[1]
CapReachedWhenSet(count, maxResults) ==
    maxResults # None /\ count >= maxResults[1]
CapReached(count, maxResults) ==
    maxResults # None /\ maxResults[1] # 0 /\ count >= maxResults[1]

Report(kind, n) == [kind |-> kind, n |-> n]

\* The owner of a frame: a module of the snscrape package, another module, or
\* none that inspect.getmodule can find (code run by exec).
Owners == {"snscrape", "other", "nomodule"}

\* The failures a collaborator raises: an Exception, or a BaseException that
\* is no Exception.
FailureTypes == {"RuntimeError", "KeyboardInterrupt"}

\* inspect.trace() of a failure inside the with block: the frame of
\* _dump_locals_on_exception, main's, and the frames below main.
TraceOf(deeper) == <<"snscrape", "snscrape">> \o deeper

\* A failure is raised inside the with block of line 110.
RaiseInLoop(type, deeper) ==
    /\ original' = Some(Raised(type, <<>>))
    /\ trace' = TraceOf(deeper)
    /\ pc' = "except"

\* Lines 111-121, one iteration: the scraper yields an item, which is cut
\* off, or rendered and counted against the cap.
LoopItem ==
    /\ pc = "loop"
    /\ Len(pulled) < MaxItems
    /\ \E date \in Dates :
          LET count == EnumerateIndex(Len(pulled) + 1)
          IN  /\ pulled' = Append(pulled, date)
              /\ i' = count
              /\ IF CutoffReached(date, args[1].since)
                 THEN /\ log' = Append(log, Report("cutoff", Instant(args[1].since[1])))
                      /\ pc' = "done"
                      /\ UNCHANGED rendered
                 ELSE /\ rendered' = Append(rendered, date)
                      /\ IF CapReached(count, args[1].maxResults)
                         THEN /\ log' = Append(log, Report("cap", count))
                              /\ pc' = "done"
                         ELSE UNCHANGED <<log, pc>>
    /\ UNCHANGED <<envVars, registryVars, args, parseResult, scraper, crashVars,
                   observed, raisedIn>>

\* Lines 111-118: the scraper yields an item that is not cut off, and
\* rendering it fails (the format template, or the item's own __str__).
LoopRenderFails ==
    /\ pc = "loop"
    /\ Len(pulled) < MaxItems
    /\ \E date \in Dates, type \in FailureTypes, deeper \in SeqsUpTo(Owners, MaxDeep) :
          /\ ~CutoffReached(date, args[1].since)
          /\ pulled' = Append(pulled, date)
          /\ i' = EnumerateIndex(Len(pulled) + 1)
          /\ RaiseInLoop(type, deeper)
    /\ UNCHANGED <<envVars, registryVars, args, parseResult, scraper, rendered, log,
                   capture, artifacts, observed, raisedIn>>

\* Line 111: the scraper fails while producing its next item.
LoopPullFails ==
    /\ pc = "loop"
    /\ \E type \in FailureTypes, deeper \in SeqsUpTo(Owners, MaxDeep) :
          RaiseInLoop(type, deeper)
    /\ UNCHANGED <<envVars, registryVars, args, parseResult, scraper, loopVars,
                   capture, artifacts, observed, raisedIn>>

\* Lines 111, 122-123: the scraper has no more items; the else of the for.
LoopExhausted ==
    /\ pc = "loop"
    /\ log' = Append(log, Report("done", i))
    /\ pc' = "done"
    /\ UNCHANGED <<envVars, registryVars, args, parseResult, scraper, pulled, i,
                   rendered, crashVars, observed, raisedIn>>

(***************************************************************************)
(* _dump_locals_on_exception, lines 14-35.                                 *)
(***************************************************************************)
\* Line 18: except Exception
CaughtByHandler(type) == type # "KeyboardInterrupt"

\* Line 20: len(trace) >= 3
\* (DiagnosticsAttemptedShallow: a threshold of 2.)
DiagnosticsAttemptedShallow(tr) == Len(tr) >= 2
DiagnosticsAttempted(tr) == Len(tr) >= 3

\* Lines 22-33 from position j of the trace on (Python's trace[j - 1]):
\* blocks are the frames written so far.  A frame without a module fails at
\* line 24; a write fails at the frame failAt, if any.
RECURSIVE WriteFrames(_, _, _, _)
WriteFrames(tr, j, blocks, failAt) ==
    IF j > Len(tr) THEN [blocks |-> blocks, raised |-> None]
    ELSE IF tr[j] = "nomodule"
    THEN [blocks |-> blocks, raised |-> Some(Raised("AttributeError", <<>>))]
    ELSE IF tr[j] # "snscrape" THEN WriteFrames(tr, j + 1, blocks, failAt)
    ELSE IF j = failAt
    THEN [blocks |-> blocks, raised |-> Some(Raised("OSError", <<>>))]
    ELSE WriteFrames(tr, j + 1, Append(blocks, j - 1), failAt)

\* Lines 21-34: the file is created (unless that fails) and kept, whatever
\* happens while it is written.
Capture(tr, createFails, failAt) ==
    IF createFails THEN [files |-> <<>>, raised |-> Some(Raised("OSError", <<>>))]
    ELSE LET w == WriteFrames(tr, 3, <<>>, failAt)
         IN  [files |-> <<w.blocks>>, raised |-> w.raised]

\* Lines 21-35: a failure of the capture propagates in place of the bare
\* raise of line 35.
\* (HandlerOutcomeWrapped: raise Exception(e) in place of the bare raise.)
HandlerOutcomeWrapped(e, secondary) ==
    IF secondary # None THEN secondary[1] ELSE Raised("Exception", <<e>>)
HandlerOutcome(e, secondary) ==
    IF secondary # None THEN secondary[1] ELSE e

\* The failure reaches the context manager.
DumpLocals ==
    /\ pc = "except"
    /\ IF ~CaughtByHandler(original[1].type)
       THEN /\ Escape(original[1], "main")
            /\ UNCHANGED <<capture, artifacts>>
       ELSE IF ~DiagnosticsAttempted(trace)
       THEN /\ capture' = "skipped"
            /\ Escape(HandlerOutcome(original[1], None), "main")
            /\ UNCHANGED artifacts
       ELSE \E createFails \in BOOLEAN, failAt \in 0..Len(trace) :
               LET c == Capture(trace, createFails, failAt)
               IN  /\ artifacts' = artifacts \o c.files
                   /\ capture' = IF c.raised = None THEN "completed" ELSE "failed"
                   /\ Escape(HandlerOutcome(original[1], c.raised),
                             IF c.raised = None THEN "main"
                             ELSE "_dump_locals_on_exception")
    /\ UNCHANGED <<envVars, registryVars, args, parseResult, scraper, loopVars,
                   trace, original>>

(***************************************************************************)
(* The specifications.                                                     *)
(***************************************************************************)
Next ==
    \/ BuildParser
    \/ DiscoverVisit
    \/ DiscoverDone
    \/ ParseArgs
    \/ SetupLogging
    \/ FromArgs
    \/ LoopItem
    \/ LoopRenderFails
    \/ LoopPullFails
    \/ LoopExhausted
    \/ DumpLocals

Spec == Init /\ [][Next]_vars

NextRegistry ==
    \/ BuildParser
    \/ DiscoverVisit
    \/ DiscoverDone

SpecRegistry == InitRegistry /\ [][NextRegistry]_vars

NextParse == ParseDatetimeCall

SpecParse == InitParse /\ [][NextParse]_vars

(***************************************************************************)
(* What the claims speak of.                                               *)
(***************************************************************************)
Since == IF args = None THEN None ELSE args[1].since
MaxResults == IF args = None THEN None ELSE args[1].maxResults

\* The items of the sequence pulled so far that are not older than since.
NotOlder(dates) ==
    IF Since = None THEN dates
    ELSE LET keep(d) == d >= Instant(Since[1]) IN SelectSeq(dates, keep)

OlderPulled ==
    IF Since = None THEN {}
    ELSE {j \in 1..Len(pulled) : pulled[j] < Instant(Since[1])}

Reported(kind) == \E j \in 1..Len(log) : log[j].kind = kind

Count(seq, x) == Cardinality({j \in 1..Len(seq) : seq[j] = x})

\* The loop is running or has ended without a failure.
LoopAlive == pc \in {"loop", "done"}

\* C1: with since set, every rendered item has date >= since and every
\* pulled item with date >= since is rendered (one equal to since too); the
\* first pulled item older than since is the last one pulled, is not
\* rendered, and ends the loop with the cutoff report as its only report.
C1_CutoffExcludesOlder ==
    Since # None =>
        /\ \A j \in 1..Len(rendered) : rendered[j] >= Instant(Since[1])
        /\ LoopAlive => rendered = NotOlder(pulled)
        /\ Reported("cutoff") => OlderPulled # {}
        /\ OlderPulled # {} =>
              /\ OlderPulled = {Len(pulled)}
              /\ pc = "done"
              /\ log = <<Report("cutoff", Instant(Since[1]))>>

\* C1's case: dates 3, 2, 1 with since = 2 render 3, 2 and stop at 1.
C1_Witness ==
    /\ pc = "done" /\ Since # None
    /\ pulled = <<3, 2, 1>> /\ rendered = <<3, 2>>
    /\ Reported("cutoff")

\* C2: with maxResults = N > 0 and no cutoff triggered, the loop renders the
\* items in the order pulled and never pulls an item after the N-th; a run
\* that pulled N items has rendered them all and ended with the cap report,
\* and a run that ended on a shorter sequence has rendered all of it.
C2_CapRendersFirstN ==
    (MaxResults # None /\ MaxResults[1] > 0 /\ ~Reported("cutoff")) =>
        LET N == MaxResults[1]
        IN  /\ Len(pulled) <= N
            /\ LoopAlive => rendered = pulled
            /\ pc = "loop" => Len(rendered) < N
            /\ pc = "done" =>
                  IF Len(pulled) = N
                  THEN log = <<Report("cap", N)>>
                  ELSE log = <<Report("done", Len(pulled))>>

\* C2's case: maxResults = 2, two items rendered, the cap reported.
C2_Witness ==
    /\ pc = "done" /\ MaxResults = Some(2) /\ Since = None
    /\ Len(rendered) = 2 /\ rendered = pulled
    /\ log = <<Report("cap", 2)>>

\* The cutoff or the cap has triggered, told from the items alone.
CutoffTriggered == OlderPulled # {}
CapTriggered ==
    /\ MaxResults # None /\ MaxResults[1] # 0
    /\ Len(rendered) >= 1 /\ Len(rendered) >= MaxResults[1]

\* C3: a run of the loop that does not fail ends with exactly one report,
\* nothing is reported before the end; the report is the completion iff
\* neither the cutoff nor the cap triggered, and its count is the number of
\* items rendered.
C3_OneTerminationReport ==
    /\ pc \in {"loop", "except"} => log = <<>>
    /\ pc = "done" =>
          /\ Len(log) = 1
          /\ log[1].kind \in {"cutoff", "cap", "done"}
          /\ log[1].kind = "done" <=> (~CutoffTriggered /\ ~CapTriggered)
          /\ log[1].kind = "cutoff" <=> CutoffTriggered
          /\ log[1].kind = "done" => log[1].n = Len(rendered)

\* C3's case: a sequence of two items is exhausted.
C3_Witness ==
    /\ pc = "done" /\ log = <<Report("done", 2)>> /\ Len(rendered) = 2

\* Two distinct classes of the hierarchy declare the same name.
NameCollision ==
    \E c, d \in 1..Len(bases) : c # d /\ NameOf(c) # None /\ NameOf(c) = NameOf(d)

\* C4 as claimed: the discovery loop visits no named class twice and
\* registers none twice; unless two classes share a name it ends with the
\* command surface built, and then every named class is registered once.
C4_EachVariantOnce ==
    /\ \A c \in 1..Len(bases) :
          NameOf(c) # None =>
              /\ Count(SubSeq(classes, 1, k), c) <= 1
              /\ Count(addParserCalls, c) <= 1
              /\ pc = "parse" => Count(addParserCalls, c) = 1
    /\ pc = "failed" => NameCollision

\* C5 as claimed: when two distinct classes declare the same name, parse_args
\* does not get to build the command surface, in which the class registered
\* later would have taken the name of the earlier one.
C5_CollisionDetected ==
    (NameCollision /\ pc = "parse") =>
        \A x, y \in 1..Len(addParserCalls) :
            addParserCalls[x] # addParserCalls[y] =>
                NameOf(addParserCalls[x]) # NameOf(addParserCalls[y])

\* C6 as claimed: whatever the capture does, the caller observes the
\* original failure.
C6_OriginalAlwaysObserved ==
    (pc = "failed" /\ original # None) => observed = original

\* C6 as amended: the caller observes the original failure, unchanged,
\* unless the capture itself failed; then it observes the capture's failure,
\* raised inside _dump_locals_on_exception.
C6_OriginalUnlessCaptureFails ==
    (pc = "failed" /\ original # None) =>
        IF capture = "failed"
        THEN /\ observed # original
             /\ observed[1].type \in {"AttributeError", "OSError"}
             /\ raisedIn = "_dump_locals_on_exception"
        ELSE /\ observed = original
             /\ raisedIn = "main"

\* C6's case: the capture was made and the original failure is re-raised.
C6_Witness ==
    /\ pc = "failed" /\ original # None
    /\ capture = "completed" /\ Len(artifacts) = 1
    /\ observed = original

SystemFrames(tr) == Cardinality({j \in 1..Len(tr) : tr[j] = "snscrape"})
CaughtFailure ==
    pc = "failed" /\ original # None /\ original[1].type # "KeyboardInterrupt"

\* C7 as claimed, for the runs whose capture does not itself fail: 3 or more
\* system-owned frames give exactly one artifact with the locals of a frame,
\* fewer than 3 system-owned frames give none.
C7_SystemFramesDecide ==
    (CaughtFailure /\ capture # "failed") =>
        IF SystemFrames(trace) >= 3
        THEN Len(artifacts) = 1 /\ Len(artifacts[1]) >= 1
        ELSE artifacts = <<>>

\* C7 as amended: the threshold counts every frame of the traceback.  Fewer
\* than 3 frames: no artifact.  3 or more: at most one artifact, and exactly
\* one when the capture completes, holding one block per system-owned frame
\* from position 2 on (so none when no frame below main is system-owned);
\* a capture that fails leaves no artifact only when the file could not be
\* created.
C7_TotalFramesDecide ==
    /\ Len(artifacts) <= 1
    /\ CaughtFailure =>
          /\ Len(trace) < 3 => (artifacts = <<>> /\ capture = "skipped")
          /\ Len(trace) >= 3 => capture \in {"completed", "failed"}
          /\ capture = "completed" =>
                /\ Len(artifacts) = 1
                /\ Len(artifacts[1]) = SystemFrames(SubSeq(trace, 3, Len(trace)))
                /\ SystemFrames(trace) >= 3 => Len(artifacts[1]) >= 1
          /\ (capture = "failed" /\ artifacts = <<>>) => observed[1].type = "OSError"

\* C7's case: a failure one system-owned frame below main, captured.
C7_Witness ==
    /\ CaughtFailure
    /\ trace = <<"snscrape", "snscrape", "snscrape">>
    /\ capture = "completed"
    /\ artifacts = << <<2>> >>

\* The configuration errors of a command line.
UnparsableSince ==
    argv.since \in {Some(<<Tok("junk", 0, "ok")>>), Some(<<Tok("int", 1, "time_t")>>)}
ConfigurationError == argv.scraper = None \/ UnparsableSince

\* C8: a run whose command line has a configuration error never gets past
\* parse_args: no scraper is constructed, no item is pulled, no artifact is
\* created, and the failure that ends the run is raised in parse_args.
C8_ConfigErrorBeforeScraping ==
    ConfigurationError =>
        /\ pc \in {"parse_args", "discover", "parse", "failed"}
        /\ scraper = None /\ pulled = <<>> /\ rendered = <<>>
        /\ artifacts = <<>> /\ capture = "none"
        /\ pc = "failed" => raisedIn = "parse_args"

\* C8's case: no subcommand; parse_args has raised its RuntimeError.
C8_Witness ==
    /\ pc = "failed" /\ argv.scraper = None /\ ~UnparsableSince
    /\ observed = Some(Raised("RuntimeError", <<>>))
    /\ raisedIn = "parse_args"

\* C9 as claimed: parse_datetime_arg either returns a timezone-aware
\* datetime or fails with ArgumentTypeError carrying the string it was given.
C9_TwoOutcomes ==
    /\ pc = "returned" => parseResult[1].value[1].tzinfo # None
    /\ pc = "failed" => observed = Some(Raised("ArgumentTypeError", argv.since[1]))

\* C10 as claimed, for a negative maxResults: the loop ends having rendered
\* exactly one item.
C10_NegativeRendersOne ==
    (pc = "done" /\ MaxResults # None /\ MaxResults[1] < 0) => Len(rendered) = 1

\* C10 as amended: the cap is reported only after an item was rendered;
\* with maxResults 0, as with maxResults unset, the cap is never reported,
\* every pulled item not older than since is rendered, and the run ends with
\* the cutoff or the completion report; with a negative maxResults the loop
\* stops with the cap report right after the first item it renders, so it
\* renders at most one item, and none only when the sequence is empty or
\* its first item is cut off.
C10_CapOnlyAfterRender ==
    /\ Reported("cap") => Len(rendered) >= 1
    /\ MaxResults \in {None, Some(0)} =>
          /\ ~Reported("cap")
          /\ LoopAlive => rendered = NotOlder(pulled)
          /\ pc = "done" =>
                log = IF CutoffTriggered
                      THEN <<Report("cutoff", Instant(Since[1]))>>
                      ELSE <<Report("done", Len(pulled))>>
    /\ (MaxResults # None /\ MaxResults[1] < 0) =>
          /\ Len(rendered) <= 1
          /\ pc = "loop" => rendered = <<>>
          /\ pc = "done" =>
                IF Len(rendered) = 1
                THEN log = <<Report("cap", 1)>> /\ Len(pulled) = 1
                ELSE pulled = <<>> \/ OlderPulled = {1}

\* C10's case: maxResults = 0 and three items, all rendered, no cap.
C10_Witness ==
    /\ pc = "done" /\ MaxResults = Some(0)
    /\ Len(rendered) = 3 /\ log = <<Report("done", 3)>>

====
